---- MODULE Spec2Model ----
(***************************************************************************)
(* Model of src/main.py: the structural parser (AmendmentAnalyzer's        *)
(* extract_sections / extract_subsections), the change classifier          *)
(* (analyze_changes / analyze_section_changes) and the line differ         *)
(* (compare_texts).                                                        *)
(*                                                                         *)
(* A Python str is modelled as a sequence of one-character strings, so     *)
(* that split, join, strip and the two regular expressions are computed    *)
(* character by character as the code computes them.                       *)
(***************************************************************************)
EXTENDS Integers, Sequences, FiniteSets, TLC

VARIABLES original_text, amendment_text, pc,
          original_sections, amendment_sections,
          changes, reverse_changes, html_output

vars == <<original_text, amendment_text, pc, original_sections,
          amendment_sections, changes, reverse_changes, html_output>>

(***************************************************************************)
(* Bounds of the input families.                                           *)
(***************************************************************************)
MaxLines == 3

MaxBlocks == 2

MaxDiffLines == 3

(***************************************************************************)
(* Characters and character classes.                                       *)
(***************************************************************************)
\* what \s matches in the regular expressions and what str.strip() removes
Whitespace == {" ", "\t", "\n", "\r", "\f"}

\* what \d matches
Digits == {"0", "1", "2", "3", "4", "5", "6", "7", "8", "9"}

LowerLetters == <<"a", "b", "c", "d", "e", "f", "g", "h", "i", "j", "k", "l", "m",
                  "n", "o", "p", "q", "r", "s", "t", "u", "v", "w", "x", "y", "z">>

UpperLetters == <<"A", "B", "C", "D", "E", "F", "G", "H", "I", "J", "K", "L", "M",
                  "N", "O", "P", "Q", "R", "S", "T", "U", "V", "W", "X", "Y", "Z">>

\* the lower-case letter of each upper-case letter
LowerOf ==
    [c \in {UpperLetters[k] : k \in 1..Len(UpperLetters)} |->
        LowerLetters[CHOOSE k \in 1..Len(UpperLetters) : UpperLetters[k] = c]]

\* the letters [a-z] matches
LowerSet == {LowerLetters[k] : k \in 1..Len(LowerLetters)}

\* case folding of re.IGNORECASE: an upper-case letter matches as its lower-case one
Fold(c) == IF c \in DOMAIN LowerOf THEN LowerOf[c] ELSE c

\* the value of an unset variable (Python's None)
None == <<"None">>

(***************************************************************************)
(* str operations.                                                         *)
(***************************************************************************)
\* text.split('\n'): the pieces between newlines; never an empty list
RECURSIVE SplitNewline(_)
SplitNewline(s) ==
    IF \A i \in 1..Len(s) : s[i] # "\n"
    THEN <<s>>
    ELSE LET i == CHOOSE i \in 1..Len(s) :
                      s[i] = "\n" /\ \A j \in 1..(i - 1) : s[j] # "\n"
         IN  <<SubSeq(s, 1, i - 1)>> \o SplitNewline(SubSeq(s, i + 1, Len(s)))

\* '\n'.join(lines): the empty list joins to the empty string
RECURSIVE JoinNewline(_)
JoinNewline(lines) ==
    IF lines = <<>> THEN <<>>
    ELSE IF Len(lines) = 1 THEN lines[1]
    ELSE lines[1] \o <<"\n">> \o JoinNewline(Tail(lines))

\* line.strip(): leading and trailing whitespace removed
Strip(s) ==
    IF \A i \in 1..Len(s) : s[i] \in Whitespace
    THEN <<>>
    ELSE LET lo == CHOOSE i \in 1..Len(s) :
                       s[i] \notin Whitespace /\ \A j \in 1..(i - 1) : s[j] \in Whitespace
             hi == CHOOSE i \in 1..Len(s) :
                       s[i] \notin Whitespace /\ \A j \in (i + 1)..Len(s) : s[j] \in Whitespace
         IN  SubSeq(s, lo, hi)

\* s.startswith(prefix)
StartsWith(s, prefix) ==
    Len(prefix) <= Len(s) /\ SubSeq(s, 1, Len(prefix)) = prefix

\* truth value of a str: the empty string is false
StrTruthy(s) == s # <<>>

(***************************************************************************)
(* The heading patterns of AmendmentAnalyzer.__init__.                     *)
(***************************************************************************)
\* the literal lit (given in lower case) occurs in s at position i, ignoring case
LiteralAt(s, i, lit) ==
    /\ i + Len(lit) - 1 <= Len(s)
    /\ \A k \in 1..Len(lit) : Fold(s[i + k - 1]) = lit[k]

\* \s+\d+\. matches in s starting right after position e
NumberAfter(s, e) ==
    \E w \in (e + 1)..Len(s) : \E d \in (w + 1)..Len(s) :
        /\ \A k \in (e + 1)..w : s[k] \in Whitespace
        /\ \A k \in (w + 1)..d : s[k] \in Digits
        /\ d + 1 <= Len(s)
        /\ s[d + 1] = "."

\* self.section_pattern.search(line), r'(?:SEC\.|SECTION)\s+\d+\.', IGNORECASE
section_pattern(line) ==
    \E i \in 1..Len(line) :
        \/ LiteralAt(line, i, <<"s", "e", "c", ".">>) /\ NumberAfter(line, i + 3)
        \/ LiteralAt(line, i, <<"s", "e", "c", "t", "i", "o", "n">>)
               /\ NumberAfter(line, i + 6)

\* self.subsection_pattern.search(line), r'\([a-z0-9]\)', IGNORECASE
subsection_pattern(line) ==
    \E i \in 1..Len(line) :
        /\ i + 2 <= Len(line)
        /\ line[i] = "("
        /\ \/ line[i + 1] \in Digits
           \/ Fold(line[i + 1]) \in LowerSet
        /\ line[i + 2] = ")"

(***************************************************************************)
(* The structural parser.                                                  *)
(***************************************************************************)
\* the loop of extract_subsections over the lines still to read
RECURSIVE SubsectionLoop(_, _, _, _)
SubsectionLoop(lines, subsections, current_subsection, current_content) ==
    IF lines = <<>>
    THEN IF current_subsection # None
         THEN Append(subsections, [title   |-> current_subsection,
                                   content |-> JoinNewline(current_content)])
         ELSE subsections
    ELSE LET line == Head(lines) IN
         IF subsection_pattern(line)
         THEN SubsectionLoop(Tail(lines),
                  IF current_subsection # None
                  THEN Append(subsections, [title   |-> current_subsection,
                                            content |-> JoinNewline(current_content)])
                  ELSE subsections,
                  Strip(line), <<>>)
         ELSE SubsectionLoop(Tail(lines), subsections, current_subsection,
                             Append(current_content, line))

\* extract_subsections without its closing step: the last subsection is lost
extract_subsections_NoFinal(text) ==
    LET found == SubsectionLoop(SplitNewline(text), <<>>, None, <<>>)
    IN  SubSeq(found, 1, Len(found) - 1)

extract_subsections(text) ==
    SubsectionLoop(SplitNewline(text), <<>>, None, <<>>)

\* the dict appended to sections when a section is closed
SectionOf(current_section, current_content) ==
    [title       |-> current_section,
     content     |-> JoinNewline(current_content),
     subsections |-> extract_subsections(JoinNewline(current_content))]

\* the loop of extract_sections over the lines still to read
RECURSIVE SectionLoop(_, _, _, _)
SectionLoop(lines, sections, current_section, current_content) ==
    IF lines = <<>>
    THEN IF current_section # None
         THEN Append(sections, SectionOf(current_section, current_content))
         ELSE sections
    ELSE LET line == Head(lines) IN
         IF section_pattern(line)
         THEN SectionLoop(Tail(lines),
                  IF current_section # None
                  THEN Append(sections, SectionOf(current_section, current_content))
                  ELSE sections,
                  Strip(line), <<>>)
         ELSE SectionLoop(Tail(lines), sections, current_section,
                          Append(current_content, line))

\* extract_sections that empties the buffer only when it closes a section: the
\* lines before the first heading become content of the first section
extract_sections_KeepPreamble(text) ==
    LET lines == SplitNewline(text)
        heads == {i \in 1..Len(lines) : section_pattern(lines[i])}
        first == CHOOSE i \in heads : \A j \in heads : i <= j
    IN  IF heads = {} THEN <<>>
        ELSE SectionLoop(SubSeq(lines, first + 1, Len(lines)), <<>>,
                         Strip(lines[first]), SubSeq(lines, 1, first - 1))

\* extract_sections without its closing step: the last section is lost
extract_sections_NoFinal(text) ==
    LET found == SectionLoop(SplitNewline(text), <<>>, None, <<>>)
    IN  SubSeq(found, 1, Len(found) - 1)

extract_sections(text) ==
    SectionLoop(SplitNewline(text), <<>>, None, <<>>)

(***************************************************************************)
(* The change classifier.                                                  *)
(***************************************************************************)
\* a dict that keeps the value a key already has
DictPut_KeepFirst(d, k, v) ==
    [t \in (DOMAIN d) \cup {k} |-> IF t \in DOMAIN d THEN d[t] ELSE v]

\* a dict with key k set to v; a key already present is overwritten
DictPut(d, k, v) ==
    [t \in (DOMAIN d) \cup {k} |-> IF t = k THEN v ELSE d[t]]

\* {s['title']: s for s in items}
RECURSIVE TitleDictLoop(_, _)
TitleDictLoop(items, d) ==
    IF items = <<>> THEN d
    ELSE TitleDictLoop(Tail(items), DictPut(d, Head(items).title, Head(items)))

TitleDict(items) == TitleDictLoop(items, <<>>)

\* truth value of a dict: only the dict with no key is false
DictTruthy(d) == DOMAIN d # {}

\* the same loop inserting at the front: the result is in reverse order
RECURSIVE NotInLoop_Prepend(_, _, _)
NotInLoop_Prepend(items, other_map, result) ==
    IF items = <<>> THEN result
    ELSE NotInLoop_Prepend(Tail(items), other_map,
                           IF Head(items).title \notin DOMAIN other_map
                           THEN <<Head(items)>> \o result
                           ELSE result)

\* for x in items: if x['title'] not in other_map: result.append(x)
RECURSIVE NotInLoop(_, _, _)
NotInLoop(items, other_map, result) ==
    IF items = <<>> THEN result
    ELSE NotInLoop(Tail(items), other_map,
                   IF Head(items).title \notin DOMAIN other_map
                   THEN Append(result, Head(items))
                   ELSE result)

\* the third loop of analyze_section_changes
RECURSIVE ModifiedSubsectionsLoop(_, _, _)
ModifiedSubsectionsLoop(subsections, amendment_map, result) ==
    IF subsections = <<>> THEN result
    ELSE LET subsection == Head(subsections) IN
         ModifiedSubsectionsLoop(Tail(subsections), amendment_map,
             IF /\ subsection.title \in DOMAIN amendment_map
                /\ subsection.content # amendment_map[subsection.title].content
             THEN Append(result,
                         [title     |-> subsection.title,
                          original  |-> subsection.content,
                          amendment |-> amendment_map[subsection.title].content])
             ELSE result)

analyze_section_changes(original, amendment) ==
    LET original_map  == TitleDict(original.subsections)
        amendment_map == TitleDict(amendment.subsections)
    IN  [title                |-> original.title,
         added_subsections    |-> NotInLoop(amendment.subsections, original_map, <<>>),
         removed_subsections  |-> NotInLoop(original.subsections, amendment_map, <<>>),
         modified_subsections |->
             ModifiedSubsectionsLoop(original.subsections, amendment_map, <<>>)]

\* the third loop of analyze_changes
RECURSIVE ModifiedSectionsLoop(_, _, _)
ModifiedSectionsLoop(sections, amendment_map, result) ==
    IF sections = <<>> THEN result
    ELSE LET section == Head(sections) IN
         ModifiedSectionsLoop(Tail(sections), amendment_map,
             IF section.title \in DOMAIN amendment_map
             THEN LET section_changes ==
                          analyze_section_changes(section, amendment_map[section.title])
                  IN  IF DictTruthy(section_changes)
                      THEN Append(result, section_changes)
                      ELSE result
             ELSE result)

\* the values of a dict, in the order its keys were first set
RECURSIVE DictValues(_, _)
DictValues(items, d) ==
    IF items = <<>> THEN <<>>
    ELSE LET rest == DictValues(SubSeq(items, 1, Len(items) - 1), d)
             t == items[Len(items)].title
         IN  IF \E i \in 1..(Len(items) - 1) : items[i].title = t
             THEN rest ELSE Append(rest, d[t])

\* a classification whose removed sections are looked for among the values of
\* original_map instead of the original's list: duplicates are reported once
classify_RemovedFromMap(orig_sections, amend_sections) ==
    LET original_map  == TitleDict(orig_sections)
        amendment_map == TitleDict(amend_sections)
    IN  [added_sections    |-> NotInLoop(amend_sections, original_map, <<>>),
         removed_sections  |->
             NotInLoop(DictValues(orig_sections, original_map), amendment_map, <<>>),
         modified_sections |-> ModifiedSectionsLoop(orig_sections, amendment_map, <<>>)]

\* the classification of two parsed documents (analyze_changes after its two parses)
classify(orig_sections, amend_sections) ==
    LET original_map  == TitleDict(orig_sections)
        amendment_map == TitleDict(amend_sections)
    IN  [added_sections    |-> NotInLoop(amend_sections, original_map, <<>>),
         removed_sections  |-> NotInLoop(orig_sections, amendment_map, <<>>),
         modified_sections |-> ModifiedSectionsLoop(orig_sections, amendment_map, <<>>)]

analyze_changes(orig_text, amend_text) ==
    classify(extract_sections(orig_text), extract_sections(amend_text))

(***************************************************************************)
(* The line differ.                                                        *)
(***************************************************************************)
SetMax(S) == CHOOSE x \in S : \A y \in S : y <= x

SetMin(S) == CHOOSE x \in S : \A y \in S : x <= y

\* where the match of \n\s*\n that starts at position p ends (0: no match there);
\* \s* is greedy, so the match runs to the last newline of the whitespace run
BlankMatchEnd(s, p) ==
    IF s[p] # "\n" THEN 0
    ELSE LET ends == {r \in (p + 1)..Len(s) :
                         s[r] = "\n" /\ \A k \in (p + 1)..(r - 1) : s[k] \in Whitespace}
         IN  IF ends = {} THEN 0 ELSE SetMax(ends)

\* re.split(r'\n\s*\n', text)
RECURSIVE SplitBlank(_)
SplitBlank(s) ==
    LET starts == {p \in 1..Len(s) : BlankMatchEnd(s, p) # 0}
    IN  IF starts = {} THEN <<s>>
        ELSE LET p == SetMin(starts)
             IN  <<SubSeq(s, 1, p - 1)>>
                     \o SplitBlank(SubSeq(s, BlankMatchEnd(s, p) + 1, Len(s)))

\* the line boundaries of str.splitlines() among the modelled characters
LineBreaks == {"\n", "\r", "\f"}

\* s.splitlines(): no empty last line, and the empty string has no line
RECURSIVE SplitLines(_)
SplitLines(s) ==
    IF s = <<>> THEN <<>>
    ELSE IF \A i \in 1..Len(s) : s[i] \notin LineBreaks THEN <<s>>
    ELSE LET i == CHOOSE i \in 1..Len(s) :
                      s[i] \in LineBreaks /\ \A j \in 1..(i - 1) : s[j] \notin LineBreaks
             n == IF s[i] = "\r" /\ i < Len(s) /\ s[i + 1] = "\n" THEN 2 ELSE 1
         IN  <<SubSeq(s, 1, i - 1)>> \o SplitLines(SubSeq(s, i + n, Len(s)))

\* zip(xs, ys): as long as the shorter list
Zip(xs, ys) ==
    [i \in 1..(IF Len(xs) <= Len(ys) THEN Len(xs) ELSE Len(ys)) |-> <<xs[i], ys[i]>>]

\* how many lines match from a[i], b[j] on, within a[..ahi] and b[..bhi]
RECURSIVE MatchLength(_, _, _, _, _, _)
MatchLength(a, b, i, j, ahi, bhi) ==
    IF i > ahi \/ j > bhi THEN 0
    ELSE IF a[i] # b[j] THEN 0
    ELSE 1 + MatchLength(a, b, i + 1, j + 1, ahi, bhi)

\* SequenceMatcher.find_longest_match: the longest block, the earliest in a and,
\* among those, the earliest in b; <<alo, blo, 0>> when no line matches
find_longest_match(a, b, alo, ahi, blo, bhi) ==
    LET best == SetMax({MatchLength(a, b, i, j, ahi, bhi) :
                            i \in alo..ahi, j \in blo..bhi} \cup {0})
    IN  IF best = 0 THEN <<alo, blo, 0>>
        ELSE LET i == SetMin({x \in alo..ahi : \E y \in blo..bhi :
                                 MatchLength(a, b, x, y, ahi, bhi) = best})
                 j == SetMin({y \in blo..bhi :
                                 MatchLength(a, b, i, y, ahi, bhi) = best})
             IN  <<i, j, best>>

\* SequenceMatcher.get_matching_blocks, without its closing dummy block
RECURSIVE matching_blocks(_, _, _, _, _, _)
matching_blocks(a, b, alo, ahi, blo, bhi) ==
    IF alo > ahi \/ blo > bhi THEN <<>>
    ELSE LET m == find_longest_match(a, b, alo, ahi, blo, bhi)
         IN  IF m[3] = 0 THEN <<>>
             ELSE matching_blocks(a, b, alo, m[1] - 1, blo, m[2] - 1)
                      \o <<m>>
                      \o matching_blocks(a, b, m[1] + m[3], ahi, m[2] + m[3], bhi)

\* the lines xs[lo..hi], each behind the marker character
Marked(marker, xs, lo, hi) ==
    [k \in 1..(IF hi >= lo THEN hi - lo + 1 ELSE 0) |-> <<marker>> \o xs[lo + k - 1]]

\* the hunk lines of unified_diff: before each matching block the lines of a the
\* block skips ('-'), then those of b ('+'), then the block itself (' ')
RECURSIVE HunkLines(_, _, _, _, _)
HunkLines(a, b, blocks, i, j) ==
    IF blocks = <<>>
    THEN Marked("-", a, i, Len(a)) \o Marked("+", b, j, Len(b))
    ELSE LET m == Head(blocks)
         IN  Marked("-", a, i, m[1] - 1) \o Marked("+", b, j, m[2] - 1)
                 \o Marked(" ", a, m[1], m[1] + m[3] - 1)
                 \o HunkLines(a, b, Tail(blocks), m[1] + m[3], m[2] + m[3])

\* a diff that writes its headers whether or not a line differs
unified_diff_AlwaysHeaders(a, b) ==
    <<  <<"-", "-", "-", " ">>, <<"+", "+", "+", " ">>, <<"@", "@">>  >>
        \o HunkLines(a, b, matching_blocks(a, b, 1, Len(a), 1, Len(b)), 1, 1)

\* difflib.unified_diff(a, b, lineterm=''): nothing when no line is added or
\* removed, else the two file headers, a hunk header and the hunk lines.  The hunk
\* header is kept without its line ranges, and every unchanged line is kept as
\* context: what the context limit of three lines leaves out or adds are ' ' and
\* '@@' lines only.
unified_diff(a, b) ==
    LET hunk == HunkLines(a, b, matching_blocks(a, b, 1, Len(a), 1, Len(b)), 1, 1)
    IN  IF \A k \in 1..Len(hunk) : hunk[k][1] = " " THEN <<>>
        ELSE <<  <<"-", "-", "-", " ">>, <<"+", "+", "+", " ">>, <<"@", "@">>  >>
                 \o hunk

\* format_diff_line: the style the line is wrapped in
format_diff_line(line) ==
    [style |-> IF StartsWith(line, <<"+">>) THEN "green"
               ELSE IF StartsWith(line, <<"-">>) THEN "red"
               ELSE IF StartsWith(line, <<"@">>) THEN "blue"
               ELSE "none",
     line  |-> line]

\* the diff lines of one column: those that start with the marker, formatted
RECURSIVE ColumnLoop(_, _, _)
ColumnLoop(diff, marker, column) ==
    IF diff = <<>> THEN column
    ELSE ColumnLoop(Tail(diff), marker,
                    IF StartsWith(Head(diff), <<marker>>)
                    THEN Append(column, format_diff_line(Head(diff)))
                    ELSE column)

\* the message compare_texts returns instead of a comparison
EmptyMessage == <<[element |-> "message", text |-> "One or both texts are empty"]>>

\* the loop of compare_texts over the zipped sections; html_output is modelled as
\* the sequence of its elements: the style block, then one container per compared
\* pair of sections with its two columns of diff lines
RECURSIVE CompareLoop(_, _, _)
CompareLoop(pairs, i, html) ==
    IF pairs = <<>> THEN html
    ELSE LET orig_section  == Head(pairs)[1]
             amend_section == Head(pairs)[2]
             diff == unified_diff(SplitLines(orig_section), SplitLines(amend_section))
         IN  CompareLoop(Tail(pairs), i + 1,
                 IF StrTruthy(Strip(orig_section)) /\ StrTruthy(Strip(amend_section))
                 THEN Append(html, [element          |-> "container",
                                    section          |-> i + 1,
                                    original_column  |-> ColumnLoop(diff, "-", <<>>),
                                    amendment_column |-> ColumnLoop(diff, "+", <<>>)])
                 ELSE html)

\* compare_texts whose guard wants both texts empty
compare_texts_BothEmpty(orig_text, amend_text) ==
    IF ~StrTruthy(orig_text) /\ ~StrTruthy(amend_text)
    THEN EmptyMessage
    ELSE CompareLoop(Zip(SplitBlank(orig_text), SplitBlank(amend_text)), 0,
                     <<[element |-> "style"]>>)

compare_texts(orig_text, amend_text) ==
    IF ~StrTruthy(orig_text) \/ ~StrTruthy(amend_text)
    THEN EmptyMessage
    ELSE CompareLoop(Zip(SplitBlank(orig_text), SplitBlank(amend_text)), 0,
                     <<[element |-> "style"]>>)

(***************************************************************************)
(* The texts the operations are applied to.                                *)
(***************************************************************************)
\* all sequences over S of length lo..hi
SeqsOf(S, lo, hi) == UNION {[1..n -> S] : n \in lo..hi}

\* the concatenation of a sequence of sequences
RECURSIVE Flatten(_)
Flatten(ss) == IF ss = <<>> THEN <<>> ELSE Head(ss) \o Flatten(Tail(ss))

HeadingOne == <<"S", "E", "C", ".", " ", "1", ".">>

\* a heading in another spelling, indented, whose title also holds a subsection label
HeadingTwo == <<" ", "S", "e", "c", "t", "i", "o", "n", " ", "2", ".", " ", "(", "a", ")">>

SubA == <<"(", "a", ")", " ", "x">>

SubB == <<"(", "b", ")">>

Plain == <<"p">>

Empty == <<>>

\* texts of one to MaxLines lines, headings in any place
ParseLines == {HeadingOne, HeadingTwo, SubA, SubB, Plain, Empty}

ParseTexts == {JoinNewline(ls) : ls \in SeqsOf(ParseLines, 1, MaxLines)}

\* texts of zero to MaxBlocks sections, each a heading line and a body
Blocks ==
    {<<HeadingOne>> \o body : body \in {<<SubA>>, <<SubB>>, <<SubA, Plain>>}}
        \cup {<<HeadingTwo>> \o body : body \in {<<SubA>>, <<SubB>>}}

BlockTexts == {JoinNewline(Flatten(bs)) : bs \in SeqsOf(Blocks, 0, MaxBlocks)}

\* the texts of the worked example and their neighbours: one section with two
\* subsection lines and a final newline
ExampleHeading == <<"S", "E", "C", ".", " ", "1", ".", " ", "F", "O", "O", ".">>

SubHello == <<"(", "a", ")", " ", "h", "e", "l", "l", "o">>

SubWorld == <<"(", "b", ")", " ", "w", "o", "r", "l", "d">>

SubNew == <<"(", "c", ")", " ", "n", "e", "w">>

ExampleTexts ==
    {JoinNewline(<<ExampleHeading, x, y, Empty>>) : x, y \in {SubHello, SubWorld, SubNew}}

ExampleA == JoinNewline(<<ExampleHeading, SubHello, SubWorld, Empty>>)

ExampleB == JoinNewline(<<ExampleHeading, SubHello, SubNew, Empty>>)

\* texts of one to MaxDiffLines lines without headings, blank lines among them
DiffLines == {<<"a">>, <<"b">>, Empty}

DiffTexts == {JoinNewline(ls) : ls \in SeqsOf(DiffLines, 1, MaxDiffLines)}

(***************************************************************************)
(* The state machine: the caller holds two texts and applies               *)
(* analyze_changes to them in both orders, then compare_texts.             *)
(***************************************************************************)
InitWith(originals, amendments) ==
    /\ original_text \in originals
    /\ amendment_text \in amendments
    /\ pc = "input"
    /\ original_sections = None
    /\ amendment_sections = None
    /\ changes = None
    /\ reverse_changes = None
    /\ html_output = None

Init == InitWith(BlockTexts, BlockTexts)

InitSelf ==
    /\ InitWith(ParseTexts, ParseTexts)
    /\ amendment_text = original_text

InitExample == InitWith(ExampleTexts, ExampleTexts)

InitDiff == InitWith(DiffTexts, DiffTexts)

\* analyze_changes(original_text, amendment_text), its two parses kept
AnalyzeChanges ==
    /\ pc = "input"
    /\ original_sections' = extract_sections(original_text)
    /\ amendment_sections' = extract_sections(amendment_text)
    /\ changes' = classify(original_sections', amendment_sections')
    /\ pc' = "analyzed"
    /\ UNCHANGED <<original_text, amendment_text, reverse_changes, html_output>>

\* analyze_changes(amendment_text, original_text): the same call, arguments swapped
AnalyzeReversed ==
    /\ pc = "analyzed"
    /\ reverse_changes' = analyze_changes(amendment_text, original_text)
    /\ pc' = "reversed"
    /\ UNCHANGED <<original_text, amendment_text, original_sections,
                   amendment_sections, changes, html_output>>

\* compare_texts(original_text, amendment_text)
CompareTexts ==
    /\ pc = "reversed"
    /\ html_output' = compare_texts(original_text, amendment_text)
    /\ pc' = "compared"
    /\ UNCHANGED <<original_text, amendment_text, original_sections,
                   amendment_sections, changes, reverse_changes>>

Next == AnalyzeChanges \/ AnalyzeReversed \/ CompareTexts

Spec == Init /\ [][Next]_vars

SpecSelf == InitSelf /\ [][Next]_vars

SpecExample == InitExample /\ [][Next]_vars

SpecDiff == InitDiff /\ [][Next]_vars

(***************************************************************************)
(* Vocabulary of the properties.                                           *)
(***************************************************************************)
Analyzed == pc \in {"analyzed", "reversed", "compared"}

Reversed == pc \in {"reversed", "compared"}

Compared == pc = "compared"

\* the titles of a list of sections or subsections, in order
Titles(items) == [i \in 1..Len(items) |-> items[i].title]

TitleSet(items) == {items[i].title : i \in 1..Len(items)}

\* the position of the last item carrying the title
LastIndex(items, title) ==
    SetMax({i \in 1..Len(items) : items[i].title = title})

\* the items whose position is in the set, in order
RECURSIVE Restrict(_, _)
Restrict(items, keep) ==
    IF items = <<>> THEN <<>>
    ELSE Restrict(SubSeq(items, 1, Len(items) - 1), keep)
             \o (IF Len(items) \in keep THEN <<items[Len(items)]>> ELSE <<>>)

\* v occurs in s as a substring
Contains(s, v) ==
    \E i \in 1..(Len(s) - Len(v) + 1) : SubSeq(s, i, i + Len(v) - 1) = v

\* every string a parsed section holds
StringsOf(section) ==
    {section.title, section.content}
        \cup {section.subsections[m].title : m \in 1..Len(section.subsections)}
        \cup {section.subsections[m].content : m \in 1..Len(section.subsections)}

\* the lines of the original text and the positions of its section headings
OriginalLines == SplitNewline(original_text)

HeadingIndexes == {i \in 1..Len(OriginalLines) : section_pattern(OriginalLines[i])}

\* a section change that reports nothing
NoSubsectionChange(c) ==
    /\ c.added_subsections = <<>>
    /\ c.removed_subsections = <<>>
    /\ c.modified_subsections = <<>>

\* no character but whitespace (the empty string included)
WhitespaceOnly(s) == \A i \in 1..Len(s) : s[i] \in Whitespace

(***************************************************************************)
(* C1.  Idempotence: classifying a text against itself reports no added,   *)
(* no removed and no modified section.                                     *)
(***************************************************************************)
C1_Idempotence ==
    (Analyzed /\ original_text = amendment_text) =>
        /\ changes.added_sections = <<>>
        /\ changes.removed_sections = <<>>
        /\ changes.modified_sections = <<>>

(***************************************************************************)
(* C2.  A title is in modified_sections iff a section with that title is   *)
(* in both documents and the comparison of the two sections produced an    *)
(* added, removed or modified subsection; a section of both documents      *)
(* whose three subsection lists are empty is not reported.                 *)
(***************************************************************************)
C2_ModifiedIffSubsectionChange ==
    Analyzed =>
        /\ \A i \in 1..Len(changes.modified_sections) :
               /\ changes.modified_sections[i].title \in
                      TitleSet(original_sections) \cap TitleSet(amendment_sections)
               /\ ~NoSubsectionChange(changes.modified_sections[i])
        /\ \A i \in 1..Len(original_sections) :
               LET t == original_sections[i].title IN
               (/\ t \in TitleSet(amendment_sections)
                /\ ~NoSubsectionChange(
                       analyze_section_changes(
                           original_sections[i],
                           amendment_sections[LastIndex(amendment_sections, t)])))
                   => t \in TitleSet(changes.modified_sections)

(***************************************************************************)
(* C3.  The worked example.  As stated: the added subsection is titled     *)
(* "(c)" with content "new", the removed one "(b)" with content "world".   *)
(* As the code computes it: a subsection's title is its whole heading      *)
(* line, trimmed, and its content the lines that follow, so the added      *)
(* subsection is titled "(c) new" and the removed one "(b) world", both    *)
(* with empty content.                                                     *)
(***************************************************************************)
ExampleCase ==
    Analyzed /\ original_text = ExampleA /\ amendment_text = ExampleB

ExampleParses ==
    /\ Len(original_sections) = 1
    /\ original_sections[1].title = ExampleHeading
    /\ Len(original_sections[1].subsections) = 2
    /\ Len(amendment_sections) = 1
    /\ amendment_sections[1].title = ExampleHeading
    /\ Len(amendment_sections[1].subsections) = 2

\* C3 as stated: the labels "(c)" and "(b)" are the titles, "new" and "world" the
\* contents
C3_ExampleAsStated ==
    ExampleCase =>
        /\ ExampleParses
        /\ changes.modified_sections =
               <<[title                |-> ExampleHeading,
                  added_subsections    |->
                      <<[title |-> <<"(", "c", ")">>, content |-> <<"n", "e", "w">>]>>,
                  removed_subsections  |->
                      <<[title   |-> <<"(", "b", ")">>,
                         content |-> <<"w", "o", "r", "l", "d">>]>>,
                  modified_subsections |-> <<>>]>>

\* C3 as the code computes it: the heading lines "(c) new" and "(b) world" are the
\* titles, the contents are empty
C3_ExampleAsCoded ==
    ExampleCase =>
        /\ ExampleParses
        /\ changes.modified_sections =
               <<[title                |-> ExampleHeading,
                  added_subsections    |-> <<[title |-> SubNew, content |-> <<>>]>>,
                  removed_subsections  |-> <<[title |-> SubWorld, content |-> <<>>]>>,
                  modified_subsections |-> <<>>]>>

C3_Witness == ExampleCase /\ Len(changes.modified_sections) = 1

(***************************************************************************)
(* C4.  Symmetry: the titles added from A to B are, in order, the titles   *)
(* removed from B to A, and the titles removed from A to B are the titles  *)
(* added from B to A.                                                      *)
(***************************************************************************)
C4_Symmetry ==
    Reversed =>
        /\ Titles(changes.added_sections) = Titles(reverse_changes.removed_sections)
        /\ Titles(changes.removed_sections) = Titles(reverse_changes.added_sections)

\* a repeated title among the added sections, and a removed section
C4_Witness ==
    /\ Reversed
    /\ Len(changes.added_sections) = 2
    /\ changes.added_sections[1].title = changes.added_sections[2].title
    /\ changes.removed_sections # <<>>

(***************************************************************************)
(* C5.  added_sections is the subsequence of the amendment's sections      *)
(* whose title no original section has, removed_sections the subsequence   *)
(* of the original's sections whose title no amendment section has; with   *)
(* no section on one side, every section of the other side is reported.    *)
(***************************************************************************)
C5_AddedRemovedSubsequences ==
    Analyzed =>
        /\ changes.added_sections =
               Restrict(amendment_sections,
                        {i \in 1..Len(amendment_sections) :
                            \A j \in 1..Len(original_sections) :
                                original_sections[j].title # amendment_sections[i].title})
        /\ changes.removed_sections =
               Restrict(original_sections,
                        {i \in 1..Len(original_sections) :
                            \A j \in 1..Len(amendment_sections) :
                                amendment_sections[j].title # original_sections[i].title})
        /\ original_sections = <<>> => changes.added_sections = amendment_sections
        /\ amendment_sections = <<>> => changes.removed_sections = original_sections

\* the amendment's first section is in the original too, its second one is added
C5_Witness ==
    /\ Analyzed
    /\ original_sections # <<>>
    /\ Len(amendment_sections) = 2
    /\ changes.added_sections = <<amendment_sections[2]>>

(***************************************************************************)
(* C6.  The lines before the first section heading are dropped: a line     *)
(* that the text holds only there is in no section's title or content and  *)
(* in no subsection; a text without a heading has no section.              *)
(***************************************************************************)
\* the non-empty lines before the first heading that nothing after it contains
PreambleOnly ==
    LET first == IF HeadingIndexes = {} THEN Len(OriginalLines) + 1
                 ELSE SetMin(HeadingIndexes)
    IN  {v \in {OriginalLines[i] : i \in 1..(first - 1)} :
            /\ v # <<>>
            /\ \A j \in first..Len(OriginalLines) : ~Contains(OriginalLines[j], v)}

\* C6: no section without a heading, and no string of a parsed section contains a
\* line that the text holds only before its first heading
C6_PreambleDropped ==
    Analyzed =>
        /\ HeadingIndexes = {} => original_sections = <<>>
        /\ \A v \in PreambleOnly :
               \A k \in 1..Len(original_sections) :
                   \A str \in StringsOf(original_sections[k]) : ~Contains(str, v)

\* a preamble line before a section that has content
C6_Witness ==
    /\ Analyzed
    /\ PreambleOnly # {}
    /\ original_sections # <<>>
    /\ original_sections[1].content # <<>>

(***************************************************************************)
(* C10.  One section per heading line, in document order; its title is     *)
(* the heading line trimmed and its content the lines between that         *)
(* heading and the next one (or the end of the text), subsection heading   *)
(* lines included.                                                         *)
(***************************************************************************)
\* the position of the k-th heading line, and of the last line of its section
HeadingAt(k) ==
    CHOOSE i \in HeadingIndexes : Cardinality({j \in HeadingIndexes : j <= i}) = k

SectionEnd(k) ==
    IF k = Cardinality(HeadingIndexes) THEN Len(OriginalLines) ELSE HeadingAt(k + 1) - 1

\* C10: the k-th section is the k-th heading line trimmed, with the lines up to the
\* next heading line as its content
C10_SectionPerHeading ==
    Analyzed =>
        /\ Len(original_sections) = Cardinality(HeadingIndexes)
        /\ \A k \in 1..Cardinality(HeadingIndexes) :
               /\ original_sections[k].title = Strip(OriginalLines[HeadingAt(k)])
               /\ original_sections[k].content =
                      JoinNewline(SubSeq(OriginalLines, HeadingAt(k) + 1, SectionEnd(k)))

\* two sections, the first holding a subsection heading line, the second's title
\* trimmed
C10_Witness ==
    /\ Analyzed
    /\ Len(original_sections) = 2
    /\ original_sections[1].content = SubA
    /\ original_sections[2].title = Strip(HeadingTwo)
    /\ original_sections[2].title # HeadingTwo

(***************************************************************************)
(* C7.  Duplicate titles.  As stated: the comparison for a title of both   *)
(* documents is made between the last original section and the last        *)
(* amendment section carrying it.  As the code computes it: only the       *)
(* amendment side is last-write-wins; every original section carrying the  *)
(* title is compared, in original order, with the last amendment section   *)
(* carrying it.                                                            *)
(***************************************************************************)
\* C7 as stated: every reported section change that holds a subsection change is
\* the comparison of the last original and the last amendment section of its title
C7_LastWinsOnBothSides ==
    Analyzed =>
        \A i \in 1..Len(changes.modified_sections) :
            LET c == changes.modified_sections[i] IN
            ~NoSubsectionChange(c) =>
                c = analyze_section_changes(
                        original_sections[LastIndex(original_sections, c.title)],
                        amendment_sections[LastIndex(amendment_sections, c.title)])

\* the positions of the original sections whose title the amendment has
SharedIndexes ==
    {i \in 1..Len(original_sections) :
        original_sections[i].title \in TitleSet(amendment_sections)}

SharedAt(k) ==
    CHOOSE i \in SharedIndexes : Cardinality({j \in SharedIndexes : j <= i}) = k

\* C7 as the code computes it: one section change for each original section whose
\* title the amendment has, in original order, each the comparison with the last
\* amendment section of that title
C7_LastWinsOnAmendmentSide ==
    Analyzed =>
        /\ Len(changes.modified_sections) = Cardinality(SharedIndexes)
        /\ \A k \in 1..Cardinality(SharedIndexes) :
               LET o == original_sections[SharedAt(k)] IN
               changes.modified_sections[k] =
                   analyze_section_changes(
                       o, amendment_sections[LastIndex(amendment_sections, o.title)])

\* one title carried by two different sections on each side
C7_Witness ==
    /\ Analyzed
    /\ Len(original_sections) = 2
    /\ Len(amendment_sections) = 2
    /\ original_sections[1].title = original_sections[2].title
    /\ amendment_sections[1].title = original_sections[1].title
    /\ amendment_sections[2].title = original_sections[1].title
    /\ original_sections[1].subsections # original_sections[2].subsections
    /\ amendment_sections[1].subsections # amendment_sections[2].subsections
    /\ Len(changes.modified_sections) = 2

(***************************************************************************)
(* C8.  The message instead of a comparison.  As stated: returned when     *)
(* either text is empty or whitespace-only.  As the code computes it:      *)
(* returned exactly when either text is the empty string; a text of        *)
(* whitespace only is compared, and no section of it gets a container.     *)
(***************************************************************************)
\* C8 as stated: the message for an empty or whitespace-only text
C8_MessageForBlankText ==
    (Compared /\ (WhitespaceOnly(original_text) \/ WhitespaceOnly(amendment_text)))
        => html_output = EmptyMessage

\* C8 as the code computes it: the message exactly for an empty text; for a
\* whitespace-only one the style block alone
C8_MessageForEmptyText ==
    Compared =>
        /\ (original_text = <<>> \/ amendment_text = <<>>) <=> html_output = EmptyMessage
        /\ (/\ original_text # <<>>
            /\ amendment_text # <<>>
            /\ WhitespaceOnly(original_text) \/ WhitespaceOnly(amendment_text))
               => html_output = <<[element |-> "style"]>>

\* one text empty, the other not
C8_Witness ==
    /\ Compared
    /\ original_text # <<>>
    /\ amendment_text = <<>>
    /\ html_output = EmptyMessage

(***************************************************************************)
(* C9.  A non-empty text compared with itself has no added and no removed  *)
(* line.                                                                   *)
(***************************************************************************)
C9_NoDiffAgainstSelf ==
    (Compared /\ original_text = amendment_text /\ original_text # <<>>) =>
        \A i \in 1..Len(html_output) :
            html_output[i].element = "container" =>
                /\ html_output[i].original_column = <<>>
                /\ html_output[i].amendment_column = <<>>

\* a text of two sections compared with itself
C9_Witness ==
    /\ Compared
    /\ original_text = amendment_text
    /\ Len(html_output) = 3
    /\ html_output[3].element = "container"

====
